---- MODULE Spec2Model ----
(***************************************************************************)
(* Model of the Portfolio_Analyzer pipeline:                               *)
(*   processing.create_portfolio_df  -> analysis.calculate_risk_metrics    *)
(*   -> pd.merge(...).fillna(0.0)    -> analysis.get_portfolio_history     *)
(* (the main dashboard of app_gemini.py), and app.get_sharpe.              *)
(*                                                                         *)
(* Floating point numbers are modelled exactly: a finite number is         *)
(* (n/d) * sqrt(rn/rd) with n/d and rn/rd in lowest terms (rn = rd = 1 for *)
(* a rational), and NaN, +inf and -inf are values of their own with the    *)
(* IEEE-754 rules numpy applies (x/0 = +-inf, 0/0 = NaN, inf-inf = NaN,    *)
(* every comparison with NaN false).  Prices are drawn from powers of two  *)
(* so that every quotient the code forms is also exact in binary floating  *)
(* point.                                                                  *)
(***************************************************************************)
EXTENDS Integers, Sequences, FiniteSets, TLC

(***************************************************************************)
(* Floating point values                                                   *)
(***************************************************************************)
Val(k, n, d, rn, rd) == [k |-> k, n |-> n, d |-> d, rn |-> rn, rd |-> rd]

NaN == Val("nan", 0, 1, 1, 1)

Inf == Val("inf", 0, 1, 1, 1)

NInf == Val("ninf", 0, 1, 1, 1)

Abs(x) == IF x < 0 THEN -x ELSE x

RECURSIVE GCD(_, _)
GCD(a, b) == IF b = 0 THEN a ELSE GCD(b, a % b)

\* the rational n/d (d # 0) in lowest terms with a positive denominator
Num(n, d) ==
    LET s == IF d < 0 THEN -1 ELSE 1
        g == GCD(Abs(n), Abs(d))
    IN  Val("num", (s * n) \div g, (s * d) \div g, 1, 1)

Zero == Num(0, 1)

IsNaN(x) == x.k = "nan"

IsInfinite(x) == x.k \in {"inf", "ninf"}

IsFinite(x) == x.k = "num"

\* -1, 0, 1 for a value that is not NaN
Sign(x) ==
    CASE x.k = "inf" -> 1
      [] x.k = "ninf" -> -1
      [] OTHER -> IF x.n > 0 THEN 1 ELSE IF x.n < 0 THEN -1 ELSE 0

Signed(s) == IF s > 0 THEN Inf ELSE NInf

FNeg(x) ==
    CASE x.k = "nan" -> NaN
      [] x.k = "inf" -> NInf
      [] x.k = "ninf" -> Inf
      [] OTHER -> [x EXCEPT !.n = -x.n]

\* x + y on the special values and on finite values that are 0 or carry
\* the same square root (no other sum is taken by the program here)
FAdd(x, y) ==
    CASE IsNaN(x) \/ IsNaN(y) -> NaN
      [] IsInfinite(x) /\ IsInfinite(y) -> IF x.k = y.k THEN x ELSE NaN
      [] IsInfinite(x) -> x
      [] IsInfinite(y) -> y
      [] x.n = 0 -> y
      [] y.n = 0 -> x
      [] x.rn = y.rn /\ x.rd = y.rd ->
            LET c == Num(x.n * y.d + y.n * x.d, x.d * y.d)
            IN  IF c.n = 0 THEN Zero ELSE Val("num", c.n, c.d, x.rn, x.rd)

FSub(x, y) == FAdd(x, FNeg(y))

\* x * y; a finite factor may carry a square root
FMul(x, y) ==
    CASE IsNaN(x) \/ IsNaN(y) -> NaN
      [] IsInfinite(x) \/ IsInfinite(y) ->
            IF Sign(x) * Sign(y) = 0 THEN NaN ELSE Signed(Sign(x) * Sign(y))
      [] x.n = 0 \/ y.n = 0 -> Zero
      [] OTHER ->
            LET c == Num(x.n * y.n, x.d * y.d)
                r == Num(x.rn * y.rn, x.rd * y.rd)
            IN  Val("num", c.n, c.d, r.n, r.d)

\* 1 / y for a finite y # 0
Recip(y) == Val("num", IF y.n < 0 THEN -y.d ELSE y.d, Abs(y.n), y.rd, y.rn)

\* x / y with numpy's float64 rules (no ZeroDivisionError)
FDiv(x, y) ==
    CASE IsNaN(x) \/ IsNaN(y) -> NaN
      [] IsInfinite(x) /\ IsInfinite(y) -> NaN
      [] IsInfinite(x) -> IF Sign(y) < 0 THEN FNeg(x) ELSE x
      [] IsInfinite(y) -> Zero
      [] y.n = 0 -> IF x.n = 0 THEN NaN ELSE Signed(Sign(x))
      [] OTHER -> FMul(x, Recip(y))

\* sqrt(x) of a rational x; NaN for a negative or NaN argument
FSqrt(x) ==
    CASE IsNaN(x) -> NaN
      [] x.k = "inf" -> Inf
      [] x.k = "ninf" -> NaN
      [] x.n < 0 -> NaN
      [] x.n = 0 -> Zero
      [] OTHER -> Val("num", 1, 1, x.n, x.d)

\* x > y on rationals and the special values; False when either is NaN
FGt(x, y) ==
    CASE IsNaN(x) \/ IsNaN(y) -> FALSE
      [] x.k = "inf" -> y.k # "inf"
      [] x.k = "ninf" -> FALSE
      [] y.k = "inf" -> FALSE
      [] y.k = "ninf" -> TRUE
      [] OTHER -> x.n * y.d > y.n * x.d

FLt(x, y) == FGt(y, x)

(***************************************************************************)
(* Program constants                                                       *)
(***************************************************************************)
\* analysis.py:57  if len(hist) < 500
MinDaily == 500

\* analysis.py:69  if len(monthly_rets) < 24
MinMonthlyRets == 24

\* analysis.py:76, 81  annualisation of monthly figures
PeriodsPerYear == 12

\* analysis.py:85  rf_rate = 0.0426
RfRate == Num(213, 5000)

\* app.py:9  RISK_FREE_RATE = 0.04
RISK_FREE_RATE == Num(1, 25)

\* app.py:43-44  annualisation of daily figures
TradingDaysPerYear == 252

(***************************************************************************)
(* Bounds of the model                                                     *)
(***************************************************************************)
\* longest list of holdings / of tickers handed to one call
MaxTickers == 2

\* a 3y download spans MinMonthlyRets..MaxMonths calendar months here
MaxMonths == 25

\* largest quantity of a holding
MaxQty == 2

\* rows of the date index of a 2y download
MaxRows == 2

\* longest history yf.Ticker(t).history() answers with
MaxHist == 3

Tickers == {"AAA", "BBB"}

\* trading days per calendar month of a download
TradingDays == {20, 21}

\* the sectors the provider's metadata names
SectorNames == {"Technology"}

\* what the provider can put in one cell: no value, a zero quote, a quote
PriceVals == {NaN, Zero, Num(1, 1), Num(2, 1)}

(***************************************************************************)
(* The provider's answer.  A column is a sequence of bars, one per row of  *)
(* the date index, [m |-> calendar month, p |-> Close or NaN].  A column   *)
(* is described by three prices: a in every row of the first month, x in   *)
(* the second row of the second month, b in every other row.               *)
(***************************************************************************)
Shapes == [days : TradingDays, months : MinMonthlyRets..MaxMonths]

Columns == [a : PriceVals, b : PriceVals, x : PriceVals]

Expand(sh, c) ==
    [i \in 1..(sh.days * sh.months) |->
        [m |-> ((i - 1) \div sh.days) + 1,
         p |-> IF i <= sh.days THEN c.a
               ELSE IF i = sh.days + 2 THEN c.x ELSE c.b]]

(***************************************************************************)
(* pandas operations used by the metrics                                   *)
(***************************************************************************)
NotNaNBar(bar) == ~IsNaN(bar.p)

\* Series.dropna()
DropNa(h) == SelectSeq(h, NotNaNBar)

Indices(h) == [i \in 1..Len(h) |-> i]

\* Series.resample('ME').last().dropna(): the last row of every calendar
\* month that has a row with a value
ResampleLast(h) ==
    LET v == DropNa(h)
        n == Len(v)
        last == SelectSeq(Indices(v), LAMBDA i : i = n \/ v[i + 1].m # v[i].m)
    IN  [j \in 1..Len(last) |-> v[last[j]]]

\* Series.pct_change(): NaN in the first row, p[i]/p[i-1] - 1 after it
PctChange(h) ==
    [i \in 1..Len(h) |->
        [m |-> h[i].m,
         p |-> IF i = 1 THEN NaN
               ELSE FSub(FDiv(h[i].p, h[i - 1].p), Num(1, 1))]]

RECURSIVE SumFrom(_, _, _)
SumFrom(h, i, acc) ==
    IF IsNaN(acc) \/ i > Len(h) THEN acc    \* NaN absorbs what follows
    ELSE SumFrom(h, i + 1, FAdd(acc, h[i].p))

\* Series.mean() of a series without NaN
Mean(h) == FDiv(SumFrom(h, 1, Zero), Num(Len(h), 1))

RECURSIVE SqDevFrom(_, _, _, _)
SqDevFrom(h, avg, i, acc) ==
    IF IsNaN(acc) \/ i > Len(h) THEN acc    \* NaN absorbs what follows
    ELSE LET dv == FSub(avg, h[i].p)
         IN  SqDevFrom(h, avg, i + 1, FAdd(acc, FMul(dv, dv)))

\* Series.std(): sample standard deviation (ddof = 1)
Std(h) ==
    IF Len(h) <= 1 THEN NaN
    ELSE FSqrt(FDiv(SqDevFrom(h, Mean(h), 1, Zero), Num(Len(h) - 1, 1)))

\* max(x, y) of a running maximum that skips NaN
FMax(x, y) == IF IsNaN(x) THEN y ELSE IF FGt(y, x) THEN y ELSE x

\* rows lo..hi of Series.cummax(), peak being the maximum before row lo;
\* the range is halved to keep the evaluation shallow
RECURSIVE CummaxRange(_, _, _, _)
CummaxRange(h, lo, hi, peak) ==
    IF lo > hi THEN << >>
    ELSE IF lo = hi THEN << [m |-> h[lo].m, p |-> FMax(peak, h[lo].p)] >>
    ELSE LET mid == (lo + hi) \div 2
             left == CummaxRange(h, lo, mid, peak)
         IN  left \o CummaxRange(h, mid + 1, hi, left[Len(left)].p)

\* Series.cummax()
Cummax(h) == CummaxRange(h, 1, Len(h), NaN)

\* (hist - rolling_max) / rolling_max, row by row
\* a variant that measures every price against the first price instead of
\* the running maximum
DrawdownFromFirst(h) ==
    [i \in 1..Len(h) |->
        [m |-> h[i].m, p |-> FDiv(FSub(h[i].p, h[1].p), h[1].p)]]

Drawdown(h) ==
    LET rolling_max == Cummax(h)
    IN  [i \in 1..Len(h) |->
            [m |-> h[i].m,
             p |-> FDiv(FSub(h[i].p, rolling_max[i].p), rolling_max[i].p)]]

\* Series.min(): the least value that is not NaN, NaN when there is none
SeriesMin(h) ==
    LET vals == {h[i].p : i \in 1..Len(h)} \ {NaN}
    IN  IF vals = {} THEN NaN
        ELSE CHOOSE v \in vals : \A w \in vals : ~FLt(w, v)

(***************************************************************************)
(* analysis.calculate_risk_metrics, the body of the per-ticker try block   *)
(***************************************************************************)
\* the record of the except branch (lines 107-112), without its ticker
Fallback ==
    [raised |-> TRUE, sharpe |-> Zero, volatility |-> Zero,
     cagr |-> Zero, max_drawdown |-> Zero]

\* monthly_rets of lines 52-67
MonthlyRets(close) == DropNa(PctChange(ResampleLast(DropNa(close))))

\* lines 75-96 once both length checks have passed
Computed(hist, monthly_rets) ==
    LET avg_monthly_ret == Mean(monthly_rets)
        annualized_return == FMul(avg_monthly_ret, Num(PeriodsPerYear, 1))
        std_dev_monthly == Std(monthly_rets)
        annualized_vol == FMul(std_dev_monthly, FSqrt(Num(PeriodsPerYear, 1)))
        sharpe == IF FGt(annualized_vol, Zero)
                  THEN FDiv(FSub(annualized_return, RfRate), annualized_vol)
                  ELSE Zero
        max_drawdown == SeriesMin(Drawdown(hist))
    IN  [raised |-> FALSE, sharpe |-> sharpe, volatility |-> annualized_vol,
         cagr |-> annualized_return, max_drawdown |-> max_drawdown]

\* a variant without the check of line 69 on the number of monthly returns
TickerMetricsNoMonthlyCheck(close) ==
    LET hist == DropNa(close)
    IN  IF Len(hist) < MinDaily THEN Fallback
        ELSE Computed(hist, MonthlyRets(close))

\* lines 50-112 for the Close column of one ticker: raised tells that an
\* exception sent the ticker to the except branch
TickerMetrics(close) ==
    LET hist == DropNa(close)
        monthly_rets == MonthlyRets(close)
    IN  IF Len(hist) < MinDaily THEN Fallback
        ELSE IF Len(monthly_rets) < MinMonthlyRets THEN Fallback
        ELSE Computed(hist, monthly_rets)

\* TickerMetrics of the columns cs of a frame of shape sh, as a table
RECURSIVE MetricsOfColumns(_, _)
MetricsOfColumns(sh, cs) ==
    IF cs = {} THEN << >>
    ELSE LET c == CHOOSE col \in cs : TRUE
         IN  (c :> TickerMetrics(Expand(sh, c))) @@ MetricsOfColumns(sh, cs \ {c})

RECURSIVE MetricsOfShapes(_)
MetricsOfShapes(shs) ==
    IF shs = {} THEN << >>
    ELSE LET sh == CHOOSE shape \in shs : TRUE
         IN  (sh :> MetricsOfColumns(sh, Columns)) @@ MetricsOfShapes(shs \ {sh})

\* TickerMetrics of every column the provider can answer with, evaluated once
MetricsOf == MetricsOfShapes(Shapes)

(***************************************************************************)
(* Tables.  A DataFrame is its set of column names and its rows in order;  *)
(* pd.DataFrame() has neither.                                             *)
(***************************************************************************)
EmptyFrame == [cols |-> {}, rows |-> << >>]

Frame(cols, rows) == [cols |-> cols, rows |-> rows]

\* df['ticker'].tolist()
TickerList(df) == [i \in 1..Len(df.rows) |-> df.rows[i].ticker]

TickerSet(df) == {df.rows[i].ticker : i \in 1..Len(df.rows)}

\* the sum of a short sequence of values, left to right
RECURSIVE SumVals(_)
SumVals(vs) ==
    IF vs = << >> THEN Zero
    ELSE FAdd(SumVals(SubSeq(vs, 1, Len(vs) - 1)), vs[Len(vs)])

(***************************************************************************)
(* processing.create_portfolio_df                                          *)
(***************************************************************************)
\* a raw quantity of a holding: a number, or text that is no number
RawQuantities ==
    {[numeric |-> TRUE, v |-> Num(q, 1)] : q \in -1..MaxQty}
        \cup {[numeric |-> FALSE, v |-> NaN]}

RawHoldings == [ticker : Tickers, quantity : RawQuantities]

\* pd.to_numeric(..., errors='coerce').fillna(0.0)
ToNumeric(raw) ==
    LET coerced == IF raw.numeric THEN raw.v ELSE NaN
    IN  IF IsNaN(coerced) THEN Zero ELSE coerced

\* The answer of yf.download(tickers, period="1d", group_by='ticker'):
\* it raised, or it is a frame whose columns are grouped by ticker or flat
\* (one ticker), with the last Close of every ticker it has a column for.
NoQuote == [has |-> FALSE, p |-> NaN]

QuoteCells(quotes) == {NoQuote} \cup {[has |-> TRUE, p |-> v] : v \in quotes}

QuoteFailure ==
    [call |-> "quotes", raised |-> TRUE, layout |-> "grouped", last |-> [t \in Tickers |-> NoQuote]]

Layouts(asked) == IF Cardinality(asked) = 1 THEN {"grouped", "flat"} ELSE {"grouped"}

QuoteAnswers(asked, quotes) ==
    {QuoteFailure} \cup
    {[call |-> "quotes", raised |-> FALSE, layout |-> l, last |-> cells] :
        l \in Layouts(asked),
        cells \in {f \in [Tickers -> QuoteCells(quotes)] :
                      \A t \in Tickers \ asked : f[t] = NoQuote}}

\* lines 44-55: the price of row t, 0.0 when anything raised
CurrentPrice(batch_data, tickers, t) ==
    IF batch_data.raised THEN Zero
    ELSE IF Len(tickers) > 1
         THEN IF batch_data.layout = "grouped" /\ batch_data.last[t].has
              THEN batch_data.last[t].p
              ELSE Zero
         ELSE IF batch_data.layout = "flat" /\ batch_data.last[t].has
              THEN batch_data.last[t].p
              ELSE Zero

\* lines 34-58: one row per holding, before the filter
Priced(holdings_list, batch_data) ==
    LET tickers == [i \in 1..Len(holdings_list) |-> holdings_list[i].ticker]
    IN  [i \in 1..Len(holdings_list) |->
            LET quantity == ToNumeric(holdings_list[i].quantity)
                price == CurrentPrice(batch_data, tickers, tickers[i])
            IN  [ticker |-> tickers[i], quantity |-> quantity, price |-> price,
                 value |-> FMul(quantity, price)]]

\* The answer of yf.Tickers(" ".join(tickers)) and of .info per ticker:
\* the bulk call raised, or for every ticker .info raised, has no key
\* 'sector', or names a sector.
NoInfo == [raised |-> TRUE, has |-> FALSE, sector |-> "Unknown"]

InfoCells(names) ==
    {NoInfo, [raised |-> FALSE, has |-> FALSE, sector |-> "Unknown"]}
        \cup {[raised |-> FALSE, has |-> TRUE, sector |-> n] : n \in names}

SectorFailure == [call |-> "sectors", raised |-> TRUE, info |-> [t \in Tickers |-> NoInfo]]

SectorAnswers(asked, names) ==
    {SectorFailure} \cup
    {[call |-> "sectors", raised |-> FALSE, info |-> cells] :
        cells \in {f \in [Tickers -> InfoCells(names)] :
                      \A t \in Tickers \ asked : f[t] = NoInfo}}

\* processing.fetch_sector_map, lines 4-27: the sector of every ticker of
\* the list, 'Unknown' where anything raised or no sector is named
FetchSectorMap(tickers, t_objs) ==
    [t \in {tickers[i] : i \in 1..Len(tickers)} |->
        IF t_objs.raised THEN "Unknown"
        ELSE IF t_objs.info[t].raised THEN "Unknown"
        ELSE IF t_objs.info[t].has THEN t_objs.info[t].sector
        ELSE "Unknown"]

\* a variant of the filter of line 61 that keeps positions of value 0
HasNoLoss(row) == FGt(row.value, Zero) \/ row.value = Zero

HasValue(row) == FGt(row.value, Zero)

PortfolioCols == {"ticker", "quantity", "price", "value", "weight"}

\* lines 61-63: the rows of positive value with their weights
Weighted(holdings_list, batch_data) ==
    LET kept == SelectSeq(Priced(holdings_list, batch_data), HasValue)
        total_value == SumVals([i \in 1..Len(kept) |-> kept[i].value])
    IN  [i \in 1..Len(kept) |->
            [ticker |-> kept[i].ticker,
             quantity |-> kept[i].quantity,
             price |-> kept[i].price,
             value |-> kept[i].value,
             weight |-> IF FGt(total_value, Zero)
                        THEN FDiv(kept[i].value, total_value)
                        ELSE Zero]]

\* lines 67-70: the column sector, added when the table is not empty
WithSectors(cols, rows, t_objs) ==
    IF rows = << >> THEN Frame(cols, rows)
    ELSE LET valid_tickers == [i \in 1..Len(rows) |-> rows[i].ticker]
             sector_map == FetchSectorMap(valid_tickers, t_objs)
         IN  Frame(cols \cup {"sector"},
                   [i \in 1..Len(rows) |->
                       [ticker |-> rows[i].ticker,
                        quantity |-> rows[i].quantity,
                        price |-> rows[i].price,
                        value |-> rows[i].value,
                        weight |-> rows[i].weight,
                        sector |-> sector_map[rows[i].ticker]]])

\* a variant that takes total_value before the filter of line 61
CreatePortfolioDfTotalFirst(holdings_list, batch_data, t_objs) ==
    IF holdings_list = << >> THEN EmptyFrame
    ELSE LET priced == Priced(holdings_list, batch_data)
             kept == SelectSeq(priced, HasValue)
             total_value == SumVals([i \in 1..Len(priced) |-> priced[i].value])
         IN  WithSectors(PortfolioCols,
                         [i \in 1..Len(kept) |->
                             [ticker |-> kept[i].ticker,
                              quantity |-> kept[i].quantity,
                              price |-> kept[i].price,
                              value |-> kept[i].value,
                              weight |-> IF FGt(total_value, Zero)
                                         THEN FDiv(kept[i].value, total_value)
                                         ELSE Zero]],
                         t_objs)

\* lines 29-72; t_objs is the answer to the sector calls of line 69
CreatePortfolioDf(holdings_list, batch_data, t_objs) ==
    IF holdings_list = << >> THEN EmptyFrame
    ELSE WithSectors(PortfolioCols, Weighted(holdings_list, batch_data), t_objs)

(***************************************************************************)
(* analysis.calculate_risk_metrics                                         *)
(***************************************************************************)
\* The answer of yf.download(tickers, period="3y", group_by='ticker'): it
\* raised, or it is a frame over one date index (shape) whose columns are
\* grouped by ticker or flat, with a Close column for some of the tickers.
AllNaN == [a |-> NaN, b |-> NaN, x |-> NaN]

NoColumn == [has |-> FALSE, c |-> AllNaN]

RiskFailure ==
    [call |-> "risk", raised |-> TRUE, layout |-> "grouped",
     shape |-> CHOOSE sh \in Shapes : TRUE,
     close |-> [t \in Tickers |-> NoColumn]]

RiskAnswers(asked, catalogue, shapes) ==
    {RiskFailure} \cup
    {[call |-> "risk", raised |-> FALSE, layout |-> l, shape |-> sh, close |-> cells] :
        l \in Layouts(asked), sh \in shapes,
        cells \in {f \in [Tickers -> {NoColumn} \cup
                                     {[has |-> TRUE, c |-> c] : c \in catalogue}] :
                      \A t \in Tickers \ asked : f[t] = NoColumn}}

\* lines 45-48: whether the lookup of the Close column of t succeeds
HasClose(data, tickers, t) ==
    IF Len(tickers) > 1
    THEN data.layout = "grouped" /\ data.close[t].has
    ELSE data.layout = "flat" /\ data.close[t].has

\* lines 42-112: one pass of the loop, the try block and its except branch
TryTicker(data, tickers, t) ==
    IF HasClose(data, tickers, t)
    THEN MetricsOf[data.shape][data.close[t].c]
    ELSE Fallback

MetricsRow(t, m) ==
    [ticker |-> t, sharpe |-> m.sharpe, volatility |-> m.volatility,
     cagr |-> m.cagr, max_drawdown |-> m.max_drawdown]

RiskCols == {"ticker", "sharpe", "volatility", "cagr", "max_drawdown"}

\* lines 41-114: one record per entry of tickers, in order
MetricsLoop(data, tickers) ==
    [i \in 1..Len(tickers) |->
        MetricsRow(tickers[i], TryTicker(data, tickers, tickers[i]))]

\* lines 20-38: the two early returns of an empty DataFrame
ReturnsEarly(df, data) ==
    \/ df.rows = << >>
    \/ "ticker" \notin df.cols
    \/ data.raised

\* lines 5-114
CalculateRiskMetrics(df, data) ==
    IF ReturnsEarly(df, data) THEN EmptyFrame
    ELSE Frame(RiskCols, MetricsLoop(data, TickerList(df)))

\* which branch packaged the record of each entry of tickers
RiskPaths(df, data) ==
    IF ReturnsEarly(df, data) THEN << >>
    ELSE [i \in 1..Len(df.rows) |->
            IF TryTicker(data, TickerList(df), df.rows[i].ticker).raised
            THEN "fallback" ELSE "computed"]

(***************************************************************************)
(* app_gemini.py:52  pd.merge(df, risk_df, on='ticker', how='left')        *)
(*                     .fillna(0.0)                                        *)
(***************************************************************************)
FillNa(v) == IF IsNaN(v) THEN Zero ELSE v

\* a position joined with a metrics record, or with no record (all NaN)
Joined(pos, m) ==
    [ticker |-> pos.ticker, quantity |-> FillNa(pos.quantity),
     price |-> FillNa(pos.price), value |-> FillNa(pos.value),
     weight |-> FillNa(pos.weight), sector |-> pos.sector,
     sharpe |-> FillNa(m.sharpe), volatility |-> FillNa(m.volatility),
     cagr |-> FillNa(m.cagr), max_drawdown |-> FillNa(m.max_drawdown)]

NoMetrics ==
    [sharpe |-> NaN, volatility |-> NaN, cagr |-> NaN, max_drawdown |-> NaN]

\* the rows a left join gives for one left row: one per matching right row,
\* in the order of the right table, or one of NaN when none matches
JoinRow(pos, right) ==
    LET hits == SelectSeq(right, LAMBDA m : m.ticker = pos.ticker)
    IN  IF hits = << >> THEN << Joined(pos, NoMetrics) >>
        ELSE [j \in 1..Len(hits) |-> Joined(pos, hits[j])]

RECURSIVE JoinRows(_, _)
JoinRows(left, right) ==
    IF left = << >> THEN << >>
    ELSE JoinRow(Head(left), right) \o JoinRows(Tail(left), right)

\* merge raises KeyError when either table has no 'ticker' column
MergeRaises(df, risk_df) == "ticker" \notin df.cols \/ "ticker" \notin risk_df.cols

Merge(df, risk_df) ==
    Frame(df.cols \cup risk_df.cols, JoinRows(df.rows, risk_df.rows))

(***************************************************************************)
(* analysis.get_portfolio_history                                          *)
(***************************************************************************)
HistVals == {NaN, Num(1, 1), Num(2, 1)}

\* The answer of yf.download(tickers, period="2y")['Close']: it raised, or
\* it is a frame of MaxRows dates with a column for some of the tickers.
NoHistory == [has |-> FALSE, vals |-> [i \in 1..MaxRows |-> NaN]]

HistoryFailure ==
    [call |-> "history", raised |-> TRUE, close |-> [t \in Tickers |-> NoHistory]]

HistoryAnswers(asked, histvals) ==
    {HistoryFailure} \cup
    {[call |-> "history", raised |-> FALSE, close |-> cells] :
        cells \in {f \in [Tickers -> {NoHistory} \cup
                                     {[has |-> TRUE, vals |-> v] :
                                         v \in [1..MaxRows -> histvals]}] :
                      \A t \in Tickers \ asked : f[t] = NoHistory}}

\* Series.ffill(): every cell takes the last value at or before it
FFill(vals) ==
    [i \in 1..Len(vals) |->
        LET seen == {j \in 1..i : ~IsNaN(vals[j])}
        IN  IF seen = {} THEN NaN
            ELSE vals[CHOOSE j \in seen : \A k \in seen : k <= j]]

\* dict(zip(df['ticker'], df['quantity'])): the last row of a ticker wins
Quantities(df) ==
    [t \in TickerSet(df) |->
        LET at == {i \in 1..Len(df.rows) : df.rows[i].ticker = t}
        IN  df.rows[CHOOSE i \in at : \A k \in at : k <= i].quantity]

\* data.columns
DataColumns(data) == {t \in Tickers : data.close[t].has}

\* the dates data.ffill().dropna() keeps: every column has a value
KeptDates(data) ==
    IF DataColumns(data) = {} THEN << >>
    ELSE SelectSeq([i \in 1..MaxRows |-> i],
                   LAMBDA i : \A t \in DataColumns(data) :
                                 ~IsNaN(FFill(data.close[t].vals)[i]))

\* lines 135-139 on one date: 0.0 plus, for every entry of tickers that is
\* a column of data, price * quantities[t]
RECURSIVE TotalOn(_, _, _, _)
TotalOn(data, tickers, quantities, date) ==
    IF tickers = << >> THEN Zero
    ELSE LET t == tickers[Len(tickers)]
             before == TotalOn(data, SubSeq(tickers, 1, Len(tickers) - 1),
                               quantities, date)
         IN  IF t \in DataColumns(data)
             THEN FAdd(before, FMul(FFill(data.close[t].vals)[date], quantities[t]))
             ELSE before

\* lines 116-145: the series as its (date, total value) rows
GetPortfolioHistory(df, data) ==
    IF df.rows = << >> \/ data.raised THEN << >>
    ELSE LET dates == KeptDates(data)
         IN  [k \in 1..Len(dates) |->
                [date |-> dates[k],
                 total |-> TotalOn(data, TickerList(df), Quantities(df), dates[k])]]

(***************************************************************************)
(* app.get_sharpe                                                          *)
(***************************************************************************)
\* The answer of yf.Ticker(ticker).history(period=...): it raised, or it is
\* the Close column of the frame (no row: hist.empty).
SharpeAnswers ==
    {[call |-> "sharpe", raised |-> TRUE, close |-> << >>]} \cup
    {[call |-> "sharpe", raised |-> FALSE, close |-> c] :
        c \in UNION {[1..n -> PriceVals] : n \in 0..MaxHist}}

Bars(vals) == [i \in 1..Len(vals) |-> [m |-> 1, p |-> vals[i]]]

\* hist['Close'].pct_change() with its default fill_method='pad'
DailyReturns(close) == PctChange(Bars(FFill(close)))

NoSharpe(info) == [none |-> TRUE, sharpe |-> NaN, info |-> info, count |-> 0]

\* lines 33-49; mean() and std() skip the NaN rows
GetSharpe(ans) ==
    IF ans.raised THEN NoSharpe("Error")
    ELSE IF ans.close = << >> THEN NoSharpe("No Data")
    ELSE LET returns == DropNa(DailyReturns(ans.close))
             annual_ret == FMul(Mean(returns), Num(TradingDaysPerYear, 1))
             volatility == FMul(Std(returns), FSqrt(Num(TradingDaysPerYear, 1)))
             sharpe == FDiv(FSub(annual_ret, RISK_FREE_RATE), volatility)
         IN  [none |-> FALSE, sharpe |-> sharpe, info |-> "count",
              count |-> Len(ans.close)]

(***************************************************************************)
(* app_gemini.py:59-62, the KPIs of the merged table.  Series.sum() and    *)
(* Series.min() skip NaN.  get_correlation_matrix and                      *)
(* get_optimization_suggestions (lines 54-55) read final_df only.          *)
(***************************************************************************)
SumSkipNa(vs) == SumVals(SelectSeq(vs, LAMBDA v : ~IsNaN(v)))

MinSkipNa(vs) ==
    LET vals == {vs[i] : i \in 1..Len(vs)} \ {NaN}
    IN  IF vals = {} THEN NaN
        ELSE CHOOSE v \in vals : \A w \in vals : ~FLt(w, v)

NoKpis ==
    [shown |-> FALSE, weighted_sharpe |-> NaN, weighted_cagr |-> NaN,
     total_val |-> NaN, worst_dd |-> NaN]

Kpis(final) ==
    LET rows == final.rows
    IN  [shown |-> TRUE,
         weighted_sharpe |->
             SumSkipNa([i \in 1..Len(rows) |-> FMul(rows[i].weight, rows[i].sharpe)]),
         weighted_cagr |->
             SumSkipNa([i \in 1..Len(rows) |-> FMul(rows[i].weight, rows[i].cagr)]),
         total_val |-> SumSkipNa([i \in 1..Len(rows) |-> rows[i].value]),
         worst_dd |-> MinSkipNa([i \in 1..Len(rows) |-> rows[i].max_drawdown])]

(***************************************************************************)
(* State                                                                   *)
(***************************************************************************)
VARIABLES
    pc,          \* where the dashboard run is
    holdings,    \* raw_holdings, the list handed to create_portfolio_df
    df,          \* the positions table
    risk_df,     \* the metrics table
    path,        \* per entry of tickers: "computed" or "fallback"
    final_df,    \* the merged table
    history,     \* history_series
    result,      \* what get_sharpe returned
    kpi,         \* the KPIs the dashboard shows
    sectors,     \* the provider's answer to the sector calls
    answer       \* the provider's answer to the latest download

vars == << pc, holdings, df, risk_df, path, final_df, history, result, kpi,
          sectors, answer >>

NoAnswer == [call |-> "none"]

HoldingLists(rows) == UNION {[1..n -> rows] : n \in 0..MaxTickers}

Asked(list) == {list[i].ticker : i \in 1..Len(list)}

Fresh ==
    /\ pc = "start"
    /\ df = EmptyFrame
    /\ risk_df = EmptyFrame
    /\ path = << >>
    /\ final_df = EmptyFrame
    /\ history = << >>
    /\ result = NoSharpe("none")
    /\ kpi = NoKpis
    /\ sectors = NoAnswer
    /\ answer = NoAnswer

(***************************************************************************)
(* Operations.  Each takes the set of answers the provider may give.      *)
(***************************************************************************)
\* df = create_portfolio_df(raw_holdings); an empty list returns before the
\* download, and the sectors are fetched only for a table that is not empty
CreatePortfolio(quotes, names) ==
    /\ pc = "start"
    /\ IF holdings = << >>
       THEN answer' = answer /\ sectors' = sectors /\ df' = EmptyFrame
       ELSE \E batch_data \in QuoteAnswers(Asked(holdings), quotes) :
               /\ answer' = batch_data
               /\ LET rows == Weighted(holdings, batch_data)
                      valid_tickers == {rows[i].ticker : i \in 1..Len(rows)}
                  IN  IF rows = << >>
                      THEN /\ sectors' = sectors
                           /\ df' = CreatePortfolioDf(holdings, batch_data, SectorFailure)
                      ELSE \E t_objs \in SectorAnswers(valid_tickers, names) :
                              /\ sectors' = t_objs
                              /\ df' = CreatePortfolioDf(holdings, batch_data, t_objs)
    /\ pc' = "portfolio"
    /\ UNCHANGED << holdings, risk_df, path, final_df, history, result, kpi >>

\* risk_df = calculate_risk_metrics(df); an empty table returns before the
\* download
RiskMetrics(catalogue, shapes) ==
    /\ pc = "portfolio"
    /\ IF df.rows = << >> \/ "ticker" \notin df.cols
       THEN answer' = answer /\ risk_df' = EmptyFrame /\ path' = << >>
       ELSE \E data \in RiskAnswers(TickerSet(df), catalogue, shapes) :
               /\ answer' = data
               /\ risk_df' = CalculateRiskMetrics(df, data)
               /\ path' = RiskPaths(df, data)
    /\ pc' = "metrics"
    /\ UNCHANGED << holdings, sectors, df, final_df, history, result, kpi >>

\* final_df = pd.merge(df, risk_df, on='ticker', how='left').fillna(0.0)
MergeTables ==
    /\ pc = "metrics"
    /\ IF MergeRaises(df, risk_df)
       THEN pc' = "crashed" /\ final_df' = final_df
       ELSE pc' = "merged" /\ final_df' = Merge(df, risk_df)
    /\ UNCHANGED << holdings, sectors, df, risk_df, path, history, result, kpi, answer >>

\* history_series = get_portfolio_history(final_df); an empty table returns
\* before the download
PortfolioHistory(vals) ==
    /\ pc = "merged"
    /\ IF final_df.rows = << >>
       THEN answer' = answer /\ history' = << >>
       ELSE \E data \in HistoryAnswers(TickerSet(final_df), vals) :
               /\ answer' = data
               /\ history' = GetPortfolioHistory(final_df, data)
    /\ pc' = "history"
    /\ UNCHANGED << holdings, sectors, df, risk_df, path, final_df, result, kpi >>

\* sharpe, count = get_sharpe(ticker, LOOKBACK_YEARS)
Sharpe ==
    /\ pc = "start"
    /\ \E ans \in SharpeAnswers :
          /\ answer' = ans
          /\ result' = GetSharpe(ans)
    /\ pc' = "sharpe"
    /\ UNCHANGED << holdings, sectors, df, risk_df, path, final_df, history, kpi >>

\* weighted_sharpe, weighted_cagr, total_val, worst_dd of lines 59-62
ShowKpis ==
    /\ pc = "history"
    /\ kpi' = Kpis(final_df)
    /\ pc' = "kpis"
    /\ UNCHANGED << holdings, sectors, df, risk_df, path, final_df, history, result, answer >>

(***************************************************************************)
(* Specifications                                                          *)
(***************************************************************************)
One == Num(1, 1)

Two == Num(2, 1)

\* holdings of a positive quantity
DashboardHoldings ==
    [ticker : Tickers, quantity : {[numeric |-> TRUE, v |-> q] : q \in {One, Two}}]

\* columns whose first month has no value, a zero quote, a lower or the
\* same price as every later row
DashboardColumns == {c \in Columns : c.b = Two /\ c.x = c.b}

DashboardShapes == {sh \in Shapes : sh.days = 21}

\* The dashboard of app_gemini.py, which runs when raw_holdings is not
\* empty: every ticker is quoted at 1 or not at all, and the history has
\* the same price on every date.
Init ==
    /\ holdings \in HoldingLists(DashboardHoldings)
    /\ Fresh

Next ==
    \/ (holdings # << >> /\ CreatePortfolio({One}, SectorNames))
    \/ RiskMetrics(DashboardColumns, DashboardShapes)
    \/ MergeTables
    \/ PortfolioHistory({One})
    \/ ShowKpis

Spec == Init /\ [][Next]_vars

\* create_portfolio_df on every list of holdings and every answer
InitPortfolio ==
    /\ holdings \in HoldingLists(RawHoldings)
    /\ Fresh

NextPortfolio == CreatePortfolio(PriceVals, SectorNames)

SpecPortfolio == InitPortfolio /\ [][NextPortfolio]_vars

\* holdings of quantity 1
UnitHoldings == [ticker : Tickers, quantity : {[numeric |-> TRUE, v |-> One]}]

\* one answer that quotes every ticker asked for at 1
UnitQuotes(list) ==
    [call |-> "quotes", raised |-> FALSE,
     layout |-> IF Len(list) > 1 THEN "grouped" ELSE "flat",
     last |-> [t \in Tickers |->
                 IF t \in Asked(list) THEN [has |-> TRUE, p |-> One]
                 ELSE NoQuote]]

\* calculate_risk_metrics on the positions table of every list of holdings,
\* with every answer of the provider; and get_sharpe
InitRisk ==
    /\ holdings \in HoldingLists(UnitHoldings)
    /\ \/ /\ holdings # << >>
          /\ pc = "portfolio"
          /\ answer = UnitQuotes(holdings)
          /\ sectors = SectorFailure
          /\ df = CreatePortfolioDf(holdings, answer, sectors)
       \/ /\ holdings = << >>
          /\ pc = "start"
          /\ answer = NoAnswer
          /\ sectors = NoAnswer
          /\ df = EmptyFrame
    /\ risk_df = EmptyFrame
    /\ path = << >>
    /\ final_df = EmptyFrame
    /\ history = << >>
    /\ result = NoSharpe("none")
    /\ kpi = NoKpis

NextRisk ==
    \/ RiskMetrics(Columns, Shapes)
    \/ Sharpe

SpecRisk == InitRisk /\ [][NextRisk]_vars

\* one answer without a column for any ticker
NoRiskData ==
    [call |-> "risk", raised |-> FALSE, layout |-> "grouped",
     shape |-> CHOOSE sh \in Shapes : TRUE,
     close |-> [t \in Tickers |-> NoColumn]]

\* get_portfolio_history on the merged table of every list of holdings,
\* with every answer of the provider
InitHistory ==
    /\ holdings \in HoldingLists(DashboardHoldings) \ {<< >>}
    /\ pc = "merged"
    /\ answer = NoRiskData
    /\ sectors = SectorFailure
    /\ df = CreatePortfolioDf(holdings, UnitQuotes(holdings), sectors)
    /\ risk_df = CalculateRiskMetrics(df, answer)
    /\ path = RiskPaths(df, answer)
    /\ final_df = Merge(df, risk_df)
    /\ history = << >>
    /\ result = NoSharpe("none")
    /\ kpi = NoKpis

NextHistory == PortfolioHistory(HistVals)

SpecHistory == InitHistory /\ [][NextHistory]_vars

(***************************************************************************)
(* What the claims say of a Close column, stated without the operators of  *)
(* the metrics where the claim gives its own definition                    *)
(***************************************************************************)
\* the rows of a column that have a value, in date order
ValidRows(close) == SelectSeq(close, LAMBDA bar : bar.p.k # "nan")

\* price[t] <= price[t+1] all along
NonDecreasing(h) == \A t \in 1..(Len(h) - 1) : ~FGt(h[t].p, h[t + 1].p)

\* the greatest of a non-empty set of prices
Greatest(ps) == CHOOSE q \in ps : \A w \in ps : ~FGt(w, q)

\* min over t of (price[t] - max(price[0..t])) / max(price[0..t]), the
\* terms that are 0/0 left out
DrawdownByDefinition(h) ==
    LET term(t) == LET peak == Greatest({h[j].p : j \in 1..t})
                   IN  FDiv(FSub(h[t].p, peak), peak)
        terms == {term(t) : t \in 1..Len(h)} \ {NaN}
    IN  IF terms = {} THEN NaN
        ELSE CHOOSE v \in terms : \A w \in terms : ~FGt(v, w)

\* a return the metrics use (not NaN) with an endpoint that is not a
\* positive price
UsesBadPair(prices) ==
    \E i \in 2..Len(prices) :
        /\ ~IsNaN(PctChange(prices)[i].p)
        /\ ~(FGt(prices[i - 1].p, Zero) /\ FGt(prices[i].p, Zero))

FactsOfColumn(sh, c) ==
    LET close == Expand(sh, c)
        h == ValidRows(close)
    IN  [valid |-> Len(h),
         rets |-> Len(MonthlyRets(close)),
         monthly |-> Len(DropNa(ResampleLast(DropNa(close)))),
         positive |-> \A t \in 1..Len(h) : FGt(h[t].p, Zero),
         nondecreasing |-> NonDecreasing(h),
         drawdown |-> DrawdownByDefinition(h),
         badpair |-> UsesBadPair(ResampleLast(close))]

RECURSIVE FactsOfColumns(_, _)
FactsOfColumns(sh, cs) ==
    IF cs = {} THEN << >>
    ELSE LET c == CHOOSE col \in cs : TRUE
         IN  (c :> FactsOfColumn(sh, c)) @@ FactsOfColumns(sh, cs \ {c})

RECURSIVE FactsOfShapes(_)
FactsOfShapes(shs) ==
    IF shs = {} THEN << >>
    ELSE LET sh == CHOOSE shape \in shs : TRUE
         IN  (sh :> FactsOfColumns(sh, Columns)) @@ FactsOfShapes(shs \ {sh})

FactsOf == FactsOfShapes(Shapes)

\* entry i of tickers, once calculate_risk_metrics has run its loop
Looped == pc = "metrics" /\ answer.call = "risk" /\ ~answer.raised

TickerAt(i) == df.rows[i].ticker

\* the provider returned a Close column that the lookup of entry i finds
Found(i) == HasClose(answer, TickerList(df), TickerAt(i))

Facts(i) == FactsOf[answer.shape][answer.close[TickerAt(i)].c]

ZeroRecord(row) ==
    /\ row.sharpe = Zero
    /\ row.volatility = Zero
    /\ row.cagr = Zero
    /\ row.max_drawdown = Zero

(***************************************************************************)
(* Claims about calculate_risk_metrics and get_sharpe (SpecRisk)           *)
(***************************************************************************)
RowsOf(frame, t) == {i \in 1..Len(frame.rows) : frame.rows[i].ticker = t}

\* C1: for a non-empty holdings table with a ticker column, the metrics
\* table has exactly one row for every input ticker, whatever the provider
\* answers and also when the fetch fails.
C1_EveryTickerOnce ==
    (pc = "metrics" /\ df.rows # << >> /\ "ticker" \in df.cols)
        => \A t \in TickerSet(df) : Cardinality(RowsOf(risk_df, t)) = 1

\* the price fetch failed, or gave nothing usable, for entry i
Unusable(i) == answer.raised \/ ~Found(i) \/ Facts(i).valid = 0

\* C2: when the fetch fails or yields no usable data for a ticker, that
\* ticker gets the zero-valued record, every other ticker keeps the record
\* computed from its own column, and the call returns a row per entry:
\* it never raises and never returns an empty result.
C2_FailureContained ==
    (pc = "metrics" /\ answer.call = "risk")
        => /\ Len(risk_df.rows) = Len(df.rows)
           /\ \A i \in 1..Len(df.rows) :
                 /\ risk_df.rows[i].ticker = TickerAt(i)
                 /\ Unusable(i) => ZeroRecord(risk_df.rows[i])
                 /\ ~Unusable(i) =>
                       risk_df.rows[i] =
                          MetricsRow(TickerAt(i),
                                     TickerMetrics(Expand(answer.shape,
                                                          answer.close[TickerAt(i)].c)))

\* C3: a ticker whose returned history has fewer than 500 valid daily
\* prices or fewer than 24 monthly returns gets exactly the all-zero record
\* through the except branch, and a ticker that meets both minimums is
\* never sent to the except branch.
C3_InsufficientData ==
    Looped =>
        /\ Len(risk_df.rows) = Len(df.rows)
        /\ Len(path) = Len(df.rows)
        /\ \A i \in 1..Len(df.rows) :
              LET valid == IF Found(i) THEN Facts(i).valid ELSE 0
                  rets == IF Found(i) THEN Facts(i).rets ELSE 0
              IN  /\ (valid < MinDaily \/ rets < MinMonthlyRets)
                        => (path[i] = "fallback" /\ ZeroRecord(risk_df.rows[i]))
                  /\ (valid >= MinDaily /\ rets >= MinMonthlyRets)
                        => path[i] = "computed"

\* a run with a ticker short of daily prices, one short only of monthly
\* returns, or both kinds next to a computed one
C3_Witness ==
    /\ Looped
    /\ \E i \in 1..Len(df.rows) :
          /\ Found(i)
          /\ Facts(i).valid >= MinDaily
          /\ Facts(i).rets < MinMonthlyRets
          /\ path[i] = "fallback"
    /\ \E i \in 1..Len(df.rows) :
          /\ Found(i)
          /\ Facts(i).valid = MinDaily
          /\ Facts(i).rets = MinMonthlyRets
          /\ path[i] = "computed"

FiniteRow(row) ==
    /\ IsFinite(row.sharpe)
    /\ IsFinite(row.volatility)
    /\ IsFinite(row.cagr)
    /\ IsFinite(row.max_drawdown)

\* the volatility get_sharpe divided by
SharpeVolatility ==
    FMul(Std(DropNa(DailyReturns(answer.close))), FSqrt(Num(TradingDaysPerYear, 1)))

\* C4: whenever the annualized volatility is 0 the Sharpe ratio is 0.0, and
\* no field of a per-ticker result is NaN or infinite, in
\* calculate_risk_metrics and in get_sharpe.
C4_NoNaNNoInf ==
    /\ pc = "metrics" =>
          \A i \in 1..Len(risk_df.rows) :
              /\ FiniteRow(risk_df.rows[i])
              /\ risk_df.rows[i].volatility = Zero => risk_df.rows[i].sharpe = Zero
    /\ (pc = "sharpe" /\ ~result.none) =>
          /\ IsFinite(result.sharpe)
          /\ SharpeVolatility = Zero => result.sharpe = Zero

\* C7 as claimed: the max_drawdown reported for a ticker is the minimum of
\* (price[t] - running max) / running max over its daily prices, is <= 0,
\* and is 0 exactly when the daily prices are non-decreasing (stated here
\* of the tickers with a history of positive prices).
C7_DrawdownOfEveryTicker ==
    Looped =>
        \A i \in 1..Len(df.rows) :
            Found(i) /\ Facts(i).valid > 0 /\ Facts(i).positive =>
                /\ risk_df.rows[i].max_drawdown = Facts(i).drawdown
                /\ ~FGt(risk_df.rows[i].max_drawdown, Zero)
                /\ risk_df.rows[i].max_drawdown = Zero <=> Facts(i).nondecreasing

\* C7 amended: the above holds of every ticker whose record is computed; a
\* ticker sent to the except branch reports 0.0 whatever its prices; the
\* reported value is never above 0.
C7_DrawdownOfComputed ==
    Looped =>
        \A i \in 1..Len(df.rows) :
            /\ IsFinite(risk_df.rows[i].max_drawdown)
            /\ ~FGt(risk_df.rows[i].max_drawdown, Zero)
            /\ path[i] = "fallback" => risk_df.rows[i].max_drawdown = Zero
            /\ path[i] = "computed" =>
                  /\ risk_df.rows[i].max_drawdown = Facts(i).drawdown
                  /\ risk_df.rows[i].max_drawdown = Zero <=> Facts(i).nondecreasing

\* a computed ticker with a drawdown no month end shows, next to a ticker
\* of the except branch whose prices fell
C7_Witness ==
    /\ Looped
    /\ \E i \in 1..Len(df.rows) :
          /\ path[i] = "computed"
          /\ FLt(risk_df.rows[i].max_drawdown, Zero)
          /\ risk_df.rows[i].volatility = Zero
    /\ \E i \in 1..Len(df.rows) :
          /\ path[i] = "fallback"
          /\ Found(i)
          /\ ~Facts(i).nondecreasing

\* C10: no return the metrics use is computed from a pair of prices with a
\* missing or non-positive endpoint, in calculate_risk_metrics (monthly
\* returns) and in get_sharpe (daily returns).
C10_NoBadReturn ==
    /\ Looped =>
          \A i \in 1..Len(df.rows) : path[i] = "computed" => ~Facts(i).badpair
    /\ (pc = "sharpe" /\ ~result.none) =>
          \A k \in 2..Len(answer.close) :
              ~IsNaN(DailyReturns(answer.close)[k].p) =>
                  /\ FGt(answer.close[k - 1], Zero)
                  /\ FGt(answer.close[k], Zero)

(***************************************************************************)
(* Claims about create_portfolio_df (SpecPortfolio)                        *)
(***************************************************************************)
\* C5: in the table create_portfolio_df returns the weights sum to 1.0
\* whenever the total value is greater than 0, each weight is value / total
\* value, and every weight is 0 when the total value is 0.
C5_WeightsSumToOne ==
    pc = "portfolio" =>
        LET total == SumVals([i \in 1..Len(df.rows) |-> df.rows[i].value])
        IN  /\ FGt(total, Zero) =>
                  /\ SumVals([i \in 1..Len(df.rows) |-> df.rows[i].weight]) = One
                  /\ \A i \in 1..Len(df.rows) :
                        FMul(df.rows[i].weight, total) = df.rows[i].value
            /\ ~FGt(total, Zero) =>
                  \A i \in 1..Len(df.rows) : df.rows[i].weight = Zero

\* two positions of different weight
C5_Witness ==
    /\ pc = "portfolio"
    /\ Len(df.rows) = 2
    /\ FGt(df.rows[1].weight, df.rows[2].weight)

\* the quantity of holding i after coercion, and the price fetched for it
\* (0.0 when the fetch gave none)
QuantityOf(i) ==
    IF holdings[i].quantity.numeric THEN holdings[i].quantity.v ELSE Zero

Fetched(i) ==
    /\ answer.call = "quotes"
    /\ ~answer.raised
    /\ answer.last[holdings[i].ticker].has
    /\ answer.layout = (IF Len(holdings) > 1 THEN "grouped" ELSE "flat")

PriceOf(i) == IF Fetched(i) THEN answer.last[holdings[i].ticker].p ELSE Zero

\* the holdings whose value is greater than 0, in input order
Included ==
    SelectSeq([i \in 1..Len(holdings) |-> i],
              LAMBDA i : FGt(FMul(QuantityOf(i), PriceOf(i)), Zero))

\* C6: create_portfolio_df returns exactly the input holdings whose value
\* quantity * price is greater than 0, in input order; holdings of
\* non-positive value (price not fetched, quantity coerced to 0.0) are gone.
C6_ExactlyThePositive ==
    pc = "portfolio" =>
        /\ Len(df.rows) = Len(Included)
        /\ \A k \in 1..Len(df.rows) :
              /\ df.rows[k].ticker = holdings[Included[k]].ticker
              /\ df.rows[k].quantity = QuantityOf(Included[k])
              /\ df.rows[k].price = PriceOf(Included[k])
              /\ df.rows[k].value = FMul(QuantityOf(Included[k]), PriceOf(Included[k]))
              /\ FGt(df.rows[k].value, Zero)

\* a holding whose quantity is text is dropped and the one after it is kept
C6_Witness ==
    /\ pc = "portfolio"
    /\ Len(holdings) = 2
    /\ ~holdings[1].quantity.numeric
    /\ Len(df.rows) = 1
    /\ df.rows[1].ticker = holdings[2].ticker

(***************************************************************************)
(* Claims about the dashboard run (Spec) and the history (SpecHistory)     *)
(***************************************************************************)
\* C8: merging the positions with the metrics by ticker gives exactly one
\* row per position, also when a ticker is listed more than once.
C8_OneRowPerPosition ==
    pc = "merged" =>
        /\ Len(final_df.rows) = Len(df.rows)
        /\ \A i \in 1..Len(df.rows) : final_df.rows[i].ticker = df.rows[i].ticker

\* the forward-filled price of ticker t on a date, NaN when it has none
FilledPrice(t, date) ==
    IF answer.close[t].has THEN FFill(answer.close[t].vals)[date] ELSE NaN

\* C9: on every date of the series the total value is the sum over the
\* holdings (the rows of the table handed to get_portfolio_history) of
\* quantity * forward-filled price, and a date on which a held
\* ticker has no price is not in the series.
C9_TotalIsSumOverHoldings ==
    (pc = "history" /\ answer.call = "history" /\ ~answer.raised) =>
        \A k \in 1..Len(history) :
            /\ \A i \in 1..Len(final_df.rows) :
                  ~IsNaN(FilledPrice(final_df.rows[i].ticker, history[k].date))
            /\ history[k].total =
                  SumVals([i \in 1..Len(final_df.rows) |->
                      FMul(final_df.rows[i].quantity,
                           FilledPrice(final_df.rows[i].ticker, history[k].date))])

(***************************************************************************)
(* Claim about the rejection of invalid input (SpecPortfolio)              *)
(***************************************************************************)
\* a holding whose quantity is not a number
NonNumeric(list) == \E i \in 1..Len(list) : ~list[i].quantity.numeric

\* C11: a holdings list with a quantity that is not numeric is rejected
\* before any price fetch: create_portfolio_df neither fetches prices for
\* it nor returns a table made from it.
C11_InvalidInputRejected ==
    NonNumeric(holdings) => (pc # "portfolio" /\ answer.call = "none")

(***************************************************************************)
(* Claim about the KPIs of the dashboard (Spec)                            *)
(***************************************************************************)
\* the metrics of position i, as the dashboard shows them: the record that
\* calculate_risk_metrics made for entry i of tickers, NaN shown as 0.0
MetricsOfPosition(i) == Joined(df.rows[i], risk_df.rows[i])

\* C12: the portfolio Sharpe is the sum over the positions of weight_i *
\* sharpe_i, the expected return the sum of weight_i * return_i, and the
\* worst drawdown the minimum of max_drawdown_i, each position taken once.
C12_KpisOncePerPosition ==
    pc = "kpis" =>
        LET n == Len(df.rows)
        IN  /\ Len(risk_df.rows) = n
            /\ kpi.weighted_sharpe =
                  SumSkipNa([i \in 1..n |->
                      FMul(df.rows[i].weight, MetricsOfPosition(i).sharpe)])
            /\ kpi.weighted_cagr =
                  SumSkipNa([i \in 1..n |->
                      FMul(df.rows[i].weight, MetricsOfPosition(i).cagr)])
            /\ kpi.worst_dd =
                  MinSkipNa([i \in 1..n |-> MetricsOfPosition(i).max_drawdown])

(***************************************************************************)
(* Claim about the independence of a ticker's record (SpecRisk)            *)
(***************************************************************************)
\* the record made from the Close column the provider returned for t alone
OwnRecord(t) == MetricsRow(t, MetricsOf[answer.shape][answer.close[t].c])

\* C13: the record of a ticker depends only on its own price series: when
\* the provider returned a Close column of positive prices for it, its
\* record is the one made from that column, whatever the batch it was
\* asked in.
C13_OwnSeriesOnly ==
    Looped =>
        \A i \in 1..Len(df.rows) :
            (answer.close[TickerAt(i)].has /\ Facts(i).positive) =>
                risk_df.rows[i] = OwnRecord(TickerAt(i))

(***************************************************************************)
(* Claim about the length of the return series (SpecRisk)                  *)
(***************************************************************************)
\* the try block of entry i got as far as building monthly_rets (line 67)
BuiltReturns(i) == Looped /\ Found(i) /\ Facts(i).valid >= MinDaily

\* C14: the monthly return series of a ticker with n valid daily prices
\* has at most n - 1 entries, and exactly one entry fewer than the
\* month-end series it is differenced from, which has no gaps left after
\* line 63.
C14_ReturnCount ==
    \A i \in 1..Len(df.rows) :
        BuiltReturns(i) =>
            /\ Facts(i).rets <= Facts(i).valid - 1
            /\ Facts(i).rets = Facts(i).monthly - 1

====
